---- MODULE Spec2Model ----
(***************************************************************************)
(* A model of the DarkModeDetector content script: the collection pass     *)
(* detect() with its nine check* methods, the confidence aggregator, the   *)
(* theme resolver, and the MutationObserver-driven change monitor          *)
(* (setupObserver / destroy) with its setTimeout re-runs.                  *)
(*                                                                         *)
(* Strings of the program are TLA+ strings.  JavaScript null is NULL.      *)
(* An exception is modelled as an outcome record with threw = TRUE; the    *)
(* statements after the throwing one are then not executed.                *)
(***************************************************************************)
EXTENDS Integers, Sequences, FiniteSets, TLC

\* ------------------------------------------------------------------ bounds
\* page edits made by the page's own scripts before a detection pass
MaxEdits == 3
\* attribute mutations made by the page while the monitor is set up
MaxMutations == 3
\* setupObserver calls on the one detector
MaxObservers == 2

\* ------------------------------------------------------------------ values
NULL == "<null>"

\* JavaScript truthiness of a string-or-null value
Truthy(v) == v # NULL /\ v # ""

\* the elements of a sequence, as a set
Range(s) == {s[i] : i \in 1..Len(s)}

\* ------------------------------------------------------- program constants
\* checkLocalStorage: const keys = [...]
keys == <<"theme", "darkMode", "dark-mode", "color-scheme",
          "vueuse-color-scheme", "vite-ui-theme", "my-theme">>

\* getCurrentTheme: const themeKeys = [...]
themeKeys == <<"theme", "darkMode", "color-scheme">>

\* checkDOMAttributes: const checks = [...]
checks == <<
  [element |-> "html", attribute |-> "data-theme",            value |-> "dark"],
  [element |-> "html", attribute |-> "data-theme",            value |-> "light"],
  [element |-> "html", attribute |-> "data-bs-theme",         value |-> "dark"],
  [element |-> "html", attribute |-> "data-mui-color-scheme", value |-> "dark"],
  [element |-> "html", attribute |-> "data-mode",             value |-> "dark"],
  [element |-> "html", attribute |-> "color-mode",            value |-> "dark"],
  [element |-> "body", attribute |-> "data-theme",            value |-> "dark"] >>

\* checkClassNames: const classNames = [...]
classNames == <<"dark", "light", "dark-mode", "light-mode",
                "dark-theme", "light-theme", "theme-dark", "theme-light">>

\* checkToggleButtons: const selectors = [...]
selectors == <<"[data-theme-toggle]", "[data-toggle-theme]", ".theme-toggle",
               ".theme-switch", ".theme-switcher", ".dark-mode-toggle",
               ".dark-mode-switch", "[aria-label*=dark]", "[aria-label*=light]",
               "[aria-label*=theme]">>

\* setupObserver: the names the MutationObserver callback reacts to
handledAttributes == <<"class", "data-theme", "data-mode", "color-mode",
                       "data-bs-theme">>

\* setupObserver: observe(target, { attributeFilter: [...] })
attributeFilter == <<"class", "data-theme", "data-mode", "color-mode",
                     "data-bs-theme", "style">>

\* setupObserver: const targets = [...] before .filter(Boolean)
targets == <<"html", "body", "#root", "#app", "#__next">>

\* calculateConfidence: the three thresholds
VeryHighThreshold == 12
HighThreshold == 8
MediumThreshold == 4

\* the weight literals of the check* methods
WeightVeryHigh == 4
WeightHigh == 3
WeightMedium == 2
WeightLow == 1

\* checkTailwindDarkClasses: darkClasses.length < 5
MaxDarkClasses == 5

\* ------------------------------------------------------------- page state
\* Every name the program or the page can use as a storage key.
StorageKeys == Range(keys) \cup Range(themeKeys) \cup {"theme-preference"}

\* Every attribute the program reads or observes (class and style apart).
AttributeNames == {"data-theme", "data-bs-theme", "data-mui-color-scheme",
                   "data-mode", "color-mode", "title"}

\* A color string, by the form getLuminance tells apart: "empty", "hex6"
\* (#rrggbb), "rgb" (rgb(r, g, b)), or any other text ("hex3", "named",
\* "rgba", "hsl"); r, g, b are the parsed channels of the two parsed forms.
Color(form, r, g, b) == [form |-> form, r |-> r, g |-> g, b |-> b]

\* The page right after the test runner's reset: empty storage, no theme
\* attribute or class, a body, and the browser capabilities present.
BlankPage ==
  [ storage       |-> [k \in StorageKeys |-> NULL],
    denied        |-> {},
    hasBody       |-> TRUE,
    hasMatchMedia |-> TRUE,
    hasComputedStyle |-> TRUE,
    htmlAttr      |-> [a \in AttributeNames |-> NULL],
    bodyAttr      |-> [a \in AttributeNames |-> NULL],
    htmlClass     |-> {},
    bodyClass     |-> {},
    htmlStyle     |-> NULL,
    ids           |-> {},
    matching      |-> {},
    darkReader    |-> FALSE,
    background    |-> Color("empty", 0, 0, 0),
    textColor     |-> Color("empty", 0, 0, 0),
    colorScheme   |-> NULL,
    darkClassCount |-> 0,
    prefersDark   |-> FALSE ]

\* element.getAttribute(name) for the two elements the checks read
getAttribute(p, element, name) ==
  IF element = "html" THEN p.htmlAttr[name] ELSE p.bodyAttr[name]

\* element.classList.contains(c)
classListContains(p, element, c) ==
  IF element = "html" THEN c \in p.htmlClass ELSE c \in p.bodyClass

\* document.querySelector(selector) finds an element
querySelector(p, selector) == selector \in p.matching

\* ------------------------------------------------------------ the pipeline
\* What a method call leaves behind: the detector's signal list, and whether
\* the call ended in an uncaught exception.
Outcome(sigs, threw) == [signals |-> sigs, threw |-> threw]

\* Run step F on the outcome of the steps before it, unless they threw.
AndThen(o, F(_)) ==
  CHOOSE r \in {IF v.threw THEN v ELSE F(v.signals) : v \in {o}} : TRUE

\* localStorage.getItem(key) throws (cross-origin restriction)
getItemThrows(p, key) == key \in p.denied

\* localStorage.getItem(key) when it does not throw
getItem(p, key) == p.storage[key]

\* the test of checkLocalStorage on one stored value
IsDarkValue(value) == value = "dark" \/ value = "enabled" \/ value = "true"

\* checkLocalStorage with one try/catch around the whole forEach: the first
\* throwing read ends the loop
checkLocalStorageOneTry(p, sigs) ==
  LET bad   == {i \in 1..Len(keys) : getItemThrows(p, keys[i])}
      done  == IF bad = {} THEN keys
               ELSE SubSeq(keys, 1, (CHOOSE i \in bad : \A j \in bad : i <= j) - 1)
      fired == SelectSeq(done, LAMBDA key : IsDarkValue(getItem(p, key)))
  IN  Outcome(sigs \o [i \in 1..Len(fired) |->
                [type |-> "localStorage", key |-> fired[i],
                 value |-> getItem(p, fired[i]),
                 confidence |-> "very-high", weight |-> WeightVeryHigh]],
              FALSE)

\* checkLocalStorage: one try/catch per key, so a throwing read skips the
\* key and the forEach goes on
checkLocalStorage(p, sigs) ==
  LET fired == SelectSeq(keys, LAMBDA key :
                 ~getItemThrows(p, key) /\ IsDarkValue(getItem(p, key)))
  IN  Outcome(sigs \o [i \in 1..Len(fired) |->
                [type |-> "localStorage", key |-> fired[i],
                 value |-> getItem(p, fired[i]),
                 confidence |-> "very-high", weight |-> WeightVeryHigh]],
              FALSE)

\* the checks the forEach of checkDOMAttributes gets through: all of them,
\* or those before the first one whose element is a null body
ChecksDone(p) ==
  LET bad == {i \in 1..Len(checks) : checks[i].element = "body" /\ ~p.hasBody}
  IN  IF bad = {} THEN checks
      ELSE SubSeq(checks, 1, (CHOOSE i \in bad : \A j \in bad : i <= j) - 1)

\* checkDOMAttributes: element.getAttribute on a null body is a TypeError
\* that nothing catches; the signals pushed before it stay in the list
checkDOMAttributes(p, sigs) ==
  LET fired == SelectSeq(ChecksDone(p), LAMBDA c :
                 getAttribute(p, c.element, c.attribute) = c.value)
  IN  Outcome(sigs \o [i \in 1..Len(fired) |->
                [type |-> "dom-attribute", attribute |-> fired[i].attribute,
                 value |-> fired[i].value, element |-> fired[i].element,
                 confidence |-> "high", weight |-> WeightHigh]],
              Len(ChecksDone(p)) < Len(checks))

\* checkClassNames, the inner classNames.forEach for one element
ClassNameSignals(p, element) ==
  LET fired == SelectSeq(classNames, LAMBDA c : classListContains(p, element, c))
  IN  [i \in 1..Len(fired) |->
        [type |-> "class-name", className |-> fired[i], element |-> element,
         confidence |-> "high", weight |-> WeightHigh]]

\* checkClassNames: [html, body].forEach; classList of a null body throws
checkClassNames(p, sigs) ==
  IF ~p.hasBody THEN Outcome(sigs \o ClassNameSignals(p, "html"), TRUE)
  ELSE Outcome(sigs \o ClassNameSignals(p, "html")
                    \o ClassNameSignals(p, "body"), FALSE)

\* checkLibrarySignatures
checkLibrarySignatures(p, sigs) ==
  LET s1 == IF querySelector(p, ".darkmode-layer, .darkmode-toggle")
            THEN Append(sigs, [type |-> "library", name |-> "darkmode.js",
                   confidence |-> "very-high", weight |-> WeightVeryHigh])
            ELSE sigs
      s2 == IF p.darkReader \/ querySelector(p, "[class*=darkreader]")
            THEN Append(s1, [type |-> "library", name |-> "darkreader",
                   confidence |-> "very-high", weight |-> WeightVeryHigh])
            ELSE s1
  IN  Outcome(s2, FALSE)

\* checkToggleButtons with the weight of the tier below
checkToggleButtonsUnderweight(p, sigs) ==
  LET fired == SelectSeq(selectors, LAMBDA sel : querySelector(p, sel))
  IN  Outcome(sigs \o [i \in 1..Len(fired) |->
                [type |-> "toggle-button", selector |-> fired[i],
                 confidence |-> "high", weight |-> WeightMedium]],
              FALSE)

\* checkToggleButtons
checkToggleButtons(p, sigs) ==
  LET fired == SelectSeq(selectors, LAMBDA sel : querySelector(p, sel))
  IN  Outcome(sigs \o [i \in 1..Len(fired) |->
                [type |-> "toggle-button", selector |-> fired[i],
                 confidence |-> "high", weight |-> WeightHigh]],
              FALSE)

\* (0.299 * r + 0.587 * g + 0.114 * b) / 255 is evaluated in IEEE-754
\* doubles, left to right.  The double differs from the exact quotient by
\* less than 1e-15, so it can fall on the other side of 0.5 only where the
\* exact value is 0.5 (299 r + 587 g + 114 b = 127500).  Of the 114 such
\* colors the double is 0.49999999999999994 for these 44,
RoundedDown == {
  <<0, 204, 68>>, <<12, 174, 191>>, <<15, 195, 75>>, <<23, 175, 157>>,
  <<30, 186, 82>>, <<38, 166, 164>>, <<41, 187, 48>>, <<53, 157, 171>>,
  <<56, 178, 55>>, <<64, 158, 137>>, <<71, 169, 62>>, <<79, 149, 144>>,
  <<86, 160, 69>>, <<87, 129, 226>>, <<94, 140, 151>>, <<97, 161, 35>>,
  <<102, 120, 233>>, <<112, 152, 42>>, <<117, 111, 240>>,
  <<120, 132, 124>>, <<127, 143, 49>>, <<132, 102, 247>>,
  <<135, 123, 131>>, <<138, 144, 15>>, <<143, 103, 213>>,
  <<147, 93, 254>>, <<153, 135, 22>>, <<158, 94, 220>>, <<161, 115, 104>>,
  <<168, 126, 29>>, <<173, 85, 227>>, <<176, 106, 111>>, <<188, 76, 234>>,
  <<194, 118, 2>>, <<198, 108, 43>>, <<199, 77, 200>>, <<209, 109, 9>>,
  <<214, 68, 207>>, <<217, 89, 91>>, <<224, 100, 16>>, <<232, 80, 98>>,
  <<239, 91, 23>>, <<240, 60, 180>>, <<255, 51, 187>> }

\* 0.5000000000000001 for this one, and 0.5 for the other 69.
RoundedUp == { <<218, 58, 248>> }

\* getLuminance, times 510000 (an odd value is a double next to the even
\* exact value below or above it): 0 for the empty string and for every
\* form the two branches do not parse
getLuminance(color) ==
  IF color.form \in {"hex6", "rgb"}
  THEN 2 * (299 * color.r + 587 * color.g + 114 * color.b)
       + (IF <<color.r, color.g, color.b>> \in RoundedUp THEN 1 ELSE 0)
       - (IF <<color.r, color.g, color.b>> \in RoundedDown THEN 1 ELSE 0)
  ELSE 0

\* 0.5 on the scale of getLuminance
HalfLuminance == 255000

isDarkColor(color) == getLuminance(color) < HalfLuminance

isLightColor(color) == getLuminance(color) > HalfLuminance

\* checkCSSCustomProperties: getComputedStyle is called unguarded
checkCSSCustomProperties(p, sigs) ==
  IF ~p.hasComputedStyle THEN Outcome(sigs, TRUE)
  ELSE
  LET s1 == IF p.background.form # "empty" /\ isDarkColor(p.background)
            THEN Append(sigs, [type |-> "css-custom-property",
                   property |-> "--background", value |-> p.background,
                   confidence |-> "medium", weight |-> WeightMedium])
            ELSE sigs
      s2 == IF p.textColor.form # "empty" /\ isLightColor(p.textColor)
            THEN Append(s1, [type |-> "css-custom-property",
                   property |-> "--text-color", value |-> p.textColor,
                   confidence |-> "medium", weight |-> WeightMedium])
            ELSE s1
  IN  Outcome(s2, FALSE)

\* checkPrefersColorScheme pushing its signal only when the query matches
checkPrefersColorSchemeIfMatches(p, sigs) ==
  IF ~p.hasMatchMedia THEN Outcome(sigs, TRUE)
  ELSE IF p.prefersDark
       THEN Outcome(Append(sigs, [type |-> "system-preference",
                      prefersDark |-> p.prefersDark,
                      confidence |-> "low", weight |-> WeightLow]), FALSE)
       ELSE Outcome(sigs, FALSE)

\* checkPrefersColorScheme rating a matching query medium
checkPrefersColorSchemeRated(p, sigs) ==
  IF ~p.hasMatchMedia THEN Outcome(sigs, TRUE)
  ELSE Outcome(Append(sigs, [type |-> "system-preference",
                 prefersDark |-> p.prefersDark,
                 confidence |-> IF p.prefersDark THEN "medium" ELSE "low",
                 weight |-> IF p.prefersDark THEN WeightMedium
                            ELSE WeightLow]), FALSE)

\* checkPrefersColorScheme: pushes its signal whatever matchMedia says
checkPrefersColorScheme(p, sigs) ==
  IF ~p.hasMatchMedia THEN Outcome(sigs, TRUE)
  ELSE Outcome(Append(sigs, [type |-> "system-preference",
                 prefersDark |-> p.prefersDark,
                 confidence |-> "low", weight |-> WeightLow]), FALSE)

\* style.colorScheme?.includes('dark') over the values the page can have
IncludesDark(v) == v \in {"dark", "light dark", "dark light", "only dark"}

\* checkColorSchemeProperty
checkColorSchemeProperty(p, sigs) ==
  IF ~p.hasComputedStyle THEN Outcome(sigs, TRUE)
  ELSE IF p.colorScheme # NULL /\ IncludesDark(p.colorScheme)
       THEN Outcome(Append(sigs, [type |-> "color-scheme-property",
                      value |-> p.colorScheme,
                      confidence |-> "medium", weight |-> WeightMedium]), FALSE)
       ELSE Outcome(sigs, FALSE)

\* checkTailwindDarkClasses: at most MaxDarkClasses class names are kept
checkTailwindDarkClasses(p, sigs) ==
  IF p.darkClassCount > 0
  THEN Outcome(Append(sigs, [type |-> "tailwind-dark-classes",
                 classes |-> IF p.darkClassCount < MaxDarkClasses
                             THEN p.darkClassCount ELSE MaxDarkClasses,
                 confidence |-> "very-high", weight |-> WeightVeryHigh]), FALSE)
  ELSE Outcome(sigs, FALSE)

\* detect(), up to its return statement: this.signals = [] and the nine
\* checks in order
Collect(p) ==
  LET o1 == checkLocalStorage(p, <<>>)
      o2 == AndThen(o1, LAMBDA s : checkDOMAttributes(p, s))
      o3 == AndThen(o2, LAMBDA s : checkClassNames(p, s))
      o4 == AndThen(o3, LAMBDA s : checkLibrarySignatures(p, s))
      o5 == AndThen(o4, LAMBDA s : checkToggleButtons(p, s))
      o6 == AndThen(o5, LAMBDA s : checkCSSCustomProperties(p, s))
      o7 == AndThen(o6, LAMBDA s : checkPrefersColorScheme(p, s))
      o8 == AndThen(o7, LAMBDA s : checkColorSchemeProperty(p, s))
      o9 == AndThen(o8, LAMBDA s : checkTailwindDarkClasses(p, s))
  IN  o9

\* signals.reduce((sum, s) => sum + (s.weight || 0), 0)
RECURSIVE totalWeight(_)
totalWeight(sigs) ==
  IF sigs = <<>> THEN 0 ELSE Head(sigs).weight + totalWeight(Tail(sigs))

\* calculateConfidence with > for >= at each threshold
calculateConfidenceStrict(sigs) ==
  IF totalWeight(sigs) > VeryHighThreshold THEN "very-high"
  ELSE IF totalWeight(sigs) > HighThreshold THEN "high"
  ELSE IF totalWeight(sigs) > MediumThreshold THEN "medium"
  ELSE "low"

\* calculateConfidence with === for >= at the top threshold
calculateConfidenceExact(sigs) ==
  IF totalWeight(sigs) = VeryHighThreshold THEN "very-high"
  ELSE IF totalWeight(sigs) >= HighThreshold THEN "high"
  ELSE IF totalWeight(sigs) >= MediumThreshold THEN "medium"
  ELSE "low"

\* calculateConfidence
calculateConfidence(sigs) ==
  IF totalWeight(sigs) >= VeryHighThreshold THEN "very-high"
  ELSE IF totalWeight(sigs) >= HighThreshold THEN "high"
  ELSE IF totalWeight(sigs) >= MediumThreshold THEN "medium"
  ELSE "low"

\* getCurrentTheme, the storage loop: the value returned, or NULL when the
\* loop ends without returning
RECURSIVE StoredTheme(_, _)
StoredTheme(p, i) ==
  IF i > Len(themeKeys) THEN NULL
  ELSE IF getItemThrows(p, themeKeys[i]) THEN StoredTheme(p, i + 1)
  ELSE IF getItem(p, themeKeys[i]) \in {"dark", "light"}
       THEN getItem(p, themeKeys[i])
       ELSE StoredTheme(p, i + 1)

\* getCurrentTheme with the DOM attributes read before the storage keys
getCurrentThemeAttributesFirst(p) ==
  IF Truthy(getAttribute(p, "html", "data-theme"))
       THEN getAttribute(p, "html", "data-theme")
  ELSE IF Truthy(getAttribute(p, "html", "data-bs-theme"))
       THEN getAttribute(p, "html", "data-bs-theme")
  ELSE IF StoredTheme(p, 1) # NULL THEN StoredTheme(p, 1)
  ELSE IF classListContains(p, "html", "dark") THEN "dark"
  ELSE IF classListContains(p, "html", "light") THEN "light"
  ELSE "unknown"

\* getCurrentTheme
getCurrentTheme(p) ==
  IF StoredTheme(p, 1) # NULL THEN StoredTheme(p, 1)
  ELSE IF Truthy(getAttribute(p, "html", "data-theme"))
       THEN getAttribute(p, "html", "data-theme")
  ELSE IF Truthy(getAttribute(p, "html", "data-bs-theme"))
       THEN getAttribute(p, "html", "data-bs-theme")
  ELSE IF classListContains(p, "html", "dark") THEN "dark"
  ELSE IF classListContains(p, "html", "light") THEN "light"
  ELSE "unknown"

\* types.add(t) on a Set kept in insertion order
AddType(types, t) == IF t \in Range(types) THEN types ELSE Append(types, t)

\* detectImplementationType, the body of the forEach for one signal
TypesOf(types, signal) ==
  LET t1 == IF signal.type = "localStorage" THEN AddType(types, "javascript")
            ELSE types
      t2 == IF signal.type = "dom-attribute" THEN AddType(t1, "custom") ELSE t1
      t3 == IF signal.type = "class-name"
            THEN AddType(t2, "tailwind-or-custom") ELSE t2
      t4 == IF signal.type = "library" THEN AddType(t3, signal.name) ELSE t3
      t5 == IF signal.type = "tailwind-dark-classes"
            THEN AddType(t4, "tailwind") ELSE t4
      t6 == IF signal.type = "dom-attribute"
               /\ signal.attribute = "data-bs-theme"
            THEN AddType(t5, "bootstrap") ELSE t5
      t7 == IF signal.type = "dom-attribute"
               /\ signal.attribute = "data-mui-color-scheme"
            THEN AddType(t6, "material-ui") ELSE t6
  IN  t7

RECURSIVE ImplementationFrom(_, _, _)
ImplementationFrom(sigs, i, types) ==
  IF i > Len(sigs) THEN types
  ELSE ImplementationFrom(sigs, i + 1, TypesOf(types, sigs[i]))

detectImplementationType(sigs) == ImplementationFrom(sigs, 1, <<>>)

\* signals.filter(s => s.confidence === tier).length
CountTier(sigs, tier) ==
  Cardinality({i \in 1..Len(sigs) : sigs[i].confidence = tier})

\* generateSummary
generateSummary(sigs) ==
  [ totalSignals    |-> Len(sigs),
    criticalSignals |-> CountTier(sigs, "very-high"),
    highSignals     |-> CountTier(sigs, "high"),
    mediumSignals   |-> CountTier(sigs, "medium"),
    lowSignals      |-> CountTier(sigs, "low"),
    implementationTypes |-> detectImplementationType(sigs),
    detectedLibraries |->
      LET libs == SelectSeq(sigs, LAMBDA s : s.type = "library")
      IN  [i \in 1..Len(libs) |-> libs[i].name] ]

\* the object detect() returns, with length > 1 for length > 0
DetectionResultOffByOne(p, sigs) ==
  [ hasDarkMode    |-> Len(sigs) > 1,
    confidence     |-> calculateConfidence(sigs),
    currentTheme   |-> getCurrentTheme(p),
    implementation |-> detectImplementationType(sigs),
    signals        |-> sigs,
    summary        |-> generateSummary(sigs) ]

\* the object detect() returns (timestamp and url left out)
DetectionResult(p, sigs) ==
  [ hasDarkMode    |-> Len(sigs) > 0,
    confidence     |-> calculateConfidence(sigs),
    currentTheme   |-> getCurrentTheme(p),
    implementation |-> detectImplementationType(sigs),
    signals        |-> sigs,
    summary        |-> generateSummary(sigs) ]

\* the value a call that threw hands back: nothing
NoResult == [threw |-> TRUE]

\* detect() as a whole: the signal list it leaves in this.signals, whether
\* it threw, and the result it returned if it did not
detect(p) ==
  LET o == Collect(p)
  IN  [ signals |-> o.signals,
        threw   |-> o.threw,
        result  |-> IF o.threw THEN NoResult
                    ELSE DetectionResult(p, o.signals) ]

\* ------------------------------------- the test script's own detector
\* runDetection: const themeKeys = [...]
runDetectionKeys == <<"theme", "darkMode", "dark-mode", "color-scheme">>

\* runDetection: const weights = {...}
weights == [tier \in {"very-high", "high", "medium", "low"} |->
              CASE tier = "very-high" -> 4
                [] tier = "high" -> 3
                [] tier = "medium" -> 2
                [] tier = "low" -> 1]

\* runDetection, the signals it pushes: at most one per category, the
\* storage loop stopping at the first readable key that holds dark
runDetectionSignals(p) ==
  LET s1 == IF \E i \in 1..Len(runDetectionKeys) :
                  /\ ~getItemThrows(p, runDetectionKeys[i])
                  /\ getItem(p, runDetectionKeys[i]) = "dark"
            THEN <<[type |-> "localStorage", confidence |-> "very-high"]>>
            ELSE <<>>
      s2 == IF getAttribute(p, "html", "data-theme") = "dark"
               \/ getAttribute(p, "html", "data-bs-theme") = "dark"
            THEN Append(s1, [type |-> "dom-attribute", confidence |-> "high"])
            ELSE s1
      s3 == IF classListContains(p, "html", "dark")
            THEN Append(s2, [type |-> "class-name", confidence |-> "high"])
            ELSE s2
      s4 == IF p.darkClassCount > 0
            THEN Append(s3, [type |-> "tailwind", confidence |-> "very-high"])
            ELSE s3
  IN  s4

\* runDetection: signals.reduce((sum, s) => sum + weights[s.confidence], 0)
RECURSIVE runDetectionWeight(_)
runDetectionWeight(sigs) ==
  IF sigs = <<>> THEN 0
  ELSE weights[Head(sigs).confidence] + runDetectionWeight(Tail(sigs))

\* runDetection: the object it returns (signals is the count)
runDetection(p) ==
  LET sigs == runDetectionSignals(p)
      W    == runDetectionWeight(sigs)
  IN  [ hasDarkMode |-> Len(sigs) > 0,
        confidence  |-> IF W >= 12 THEN "very-high"
                        ELSE IF W >= 8 THEN "high"
                        ELSE IF W >= 4 THEN "medium"
                        ELSE "low",
        signals     |-> Len(sigs) ]

\* ------------------------------------------------------------------- state
VARIABLES
  page,       \* the inspected page: storage, DOM, capabilities
  signals,    \* this.signals
  observer,   \* this.observer: 0 for null, else the MutationObserver's number
  observed,   \* per MutationObserver created, the targets it is subscribed to
  records,    \* per MutationObserver, its queue of undelivered MutationRecords
  timers,     \* how many setTimeout callbacks are pending (all alike, 100 ms)
  callback,   \* the argument of the latest callback invocation
  last,       \* what the last direct call of a method returned
  failed,     \* a call of the returned stop function ended in a TypeError
  phase,      \* "setup" while the page is being prepared, then "run"
  edits,      \* page edits made in the setup phase
  mutations,  \* attribute mutations made since the monitor was set up
  created,    \* MutationObservers created so far
  stopped,    \* a stop operation has returned and setupObserver was not called since
  windows,    \* debounce windows opened: a timer was set while none was pending
  nDelivered, \* MutationRecords handed to an observer callback so far
  nRaw,       \* callback invocations of type theme-change so far
  nUpdate,    \* callback invocations of type detection-update so far
  rootClassOnly, \* every mutation so far was of the root element's class
  held        \* the first result handed to the callback, as its receiver keeps it

vars == <<page, signals, observer, observed, records, timers, callback, last,
          failed, phase, edits, mutations, created, stopped, windows,
          nDelivered, nRaw, nUpdate, rootClassOnly, held>>

pageVars == <<page, edits>>
detectorVars == <<signals, observer, last, held>>
monitorVars == <<observed, records, timers, callback, failed, mutations,
                 created, stopped, windows, nDelivered, nRaw, nUpdate,
                 rootClassOnly>>
countVars == <<windows, nDelivered, nRaw, nUpdate>>

Observers == 1..MaxObservers

\* no callback invocation yet
NoCallback == [type |-> "none"]

\* no result kept yet.  shared tells whether the signals array of the kept
\* result is still the array this.signals refers to (detect() returns
\* signals: this.signals, the very array the checks pushed into)
NotHeld == [kept |-> FALSE, shared |-> FALSE, result |-> NULL]

\* this.signals = [] binds this.signals to a new array: a kept result keeps
\* the old one to itself
Rebound(h) == [h EXCEPT !.shared = FALSE]

\* the kept result after a pass d made by a timer: the first result handed
\* to the callback is kept, and shares its signals array with this.signals
Keep(h, d) ==
  IF h.kept THEN Rebound(h)
  ELSE IF d.threw THEN h
  ELSE [kept |-> TRUE, shared |-> TRUE, result |-> d.result]

\* constructor(), on a freshly loaded blank page
Init ==
  /\ page = BlankPage
  /\ signals = <<>>
  /\ observer = 0
  /\ observed = [o \in Observers |-> {}]
  /\ records = [o \in Observers |-> <<>>]
  /\ timers = 0
  /\ callback = NoCallback
  /\ last = [method |-> "constructor", threw |-> FALSE, value |-> NULL,
             again |-> FALSE]
  /\ failed = FALSE
  /\ phase = "setup"
  /\ edits = 0
  /\ mutations = 0
  /\ created = 0
  /\ stopped = FALSE
  /\ windows = 0
  /\ nDelivered = 0
  /\ nRaw = 0
  /\ nUpdate = 0
  /\ rootClassOnly = TRUE
  /\ held = NotHeld

\* ------------------------------------------------- the page's own scripts
\* The values the page's scripts are let to write; the program's own lists
\* above are complete, these input sets are kept small.
StoredItems ==
  ({"theme", "darkMode"} \X {"dark", "light"})
    \cup {<<"theme", "auto">>, <<"color-scheme", "dark">>,
          <<"dark-mode", "enabled">>, <<"theme-preference", "dark">>}

DeniedKeys == {"theme", "darkMode", "dark-mode"}

SetAttributes ==
  ({<<"html", "data-theme">>} \X {"dark", "light", "auto", ""})
    \cup {<<<<"html", "data-bs-theme">>, "dark">>,
          <<<<"body", "data-theme">>, "dark">>}

AddedClasses == {<<"html", "dark">>, <<"html", "light">>, <<"body", "dark">>}

InsertedElements == {".darkmode-layer, .darkmode-toggle", ".theme-toggle"}

CustomProperties ==
  {<<"--background", Color("hex6", 18, 18, 18)>>,
   <<"--background", Color("named", 0, 0, 0)>>,
   <<"--text-color", Color("hex6", 255, 255, 255)>>}

\* the page with element.setAttribute(name, value) done
WithAttribute(p, element, name, value) ==
  IF element = "html"
  THEN [p EXCEPT !.htmlAttr[name] = value]
  ELSE [p EXCEPT !.bodyAttr[name] = value]

\* a page edit of the setup phase
Edit(p) ==
  /\ phase = "setup"
  /\ edits < MaxEdits
  /\ p # page
  /\ page' = p
  /\ edits' = edits + 1
  /\ UNCHANGED <<detectorVars, monitorVars, phase>>

\* localStorage.setItem(key, value)
SetItem ==
  \E kv \in StoredItems :
    Edit([page EXCEPT !.storage[kv[1]] = kv[2]])

\* the browser refuses reads of a key (getItem throws)
DenyStorage ==
  \E k \in DeniedKeys :
    Edit([page EXCEPT !.denied = @ \cup {k}])

\* element.setAttribute(name, value), before any observer exists
SetAttribute ==
  \E av \in SetAttributes :
    /\ av[1][1] = "body" => page.hasBody
    /\ Edit(WithAttribute(page, av[1][1], av[1][2], av[2]))

\* element.classList.add(c), before any observer exists
ClassListAdd ==
  \E ec \in AddedClasses :
    /\ ec[1] = "body" => page.hasBody
    /\ Edit(IF ec[1] = "html"
            THEN [page EXCEPT !.htmlClass = @ \cup {ec[2]}]
            ELSE [page EXCEPT !.bodyClass = @ \cup {ec[2]}])

\* the script runs while document.body is still null
RemoveBody ==
  /\ page.bodyAttr = BlankPage.bodyAttr
  /\ page.bodyClass = {}
  /\ Edit([page EXCEPT !.hasBody = FALSE])

\* the host environment has no window.matchMedia
RemoveMatchMedia == Edit([page EXCEPT !.hasMatchMedia = FALSE])

\* the host environment has no getComputedStyle
RemoveComputedStyle == Edit([page EXCEPT !.hasComputedStyle = FALSE])

\* an element matching one of the queried selectors is inserted
InsertElement ==
  \E sel \in InsertedElements :
    Edit([page EXCEPT !.matching = @ \cup {sel}])

\* the stylesheet sets --background or --text-color on the root
SetCustomProperty ==
  \E pc \in CustomProperties :
    Edit(IF pc[1] = "--background"
         THEN [page EXCEPT !.background = pc[2]]
         ELSE [page EXCEPT !.textColor = pc[2]])

\* the colors the classifier is called on directly: grays, colors whose
\* exact luminance is 0.5, and their neighbours one blue step away
ColorSamples ==
  LET boundary == RoundedDown \cup RoundedUp
                    \cup {<<1, 173, 225>>, <<4, 194, 109>>, <<8, 184, 150>>}
      grays    == {<<v, v, v>> : v \in {0, 18, 127, 128, 255}}
      near     == {<<c[1], c[2], c[3] - 1>> : c \in {k \in boundary : k[3] > 0}}
                    \cup {<<c[1], c[2], c[3] + 1>> :
                            c \in {k \in boundary : k[3] < 255}}
  IN  {Color("hex6", c[1], c[2], c[3]) : c \in boundary \cup grays \cup near}
        \cup {Color("rgb", 0, 204, 68), Color("rgb", 128, 128, 128)}

\* the stylesheet sets --background to one of the sampled colors
SetSampleColor ==
  \E c \in ColorSamples :
    Edit([page EXCEPT !.background = c])

\* the stylesheet sets color-scheme: dark on the root
SetColorScheme == Edit([page EXCEPT !.colorScheme = "dark"])

\* an element gets a class beginning with dark:
AddDarkClass == Edit([page EXCEPT !.darkClassCount = @ + 1])

\* the user's system switches to a dark color scheme
SetPrefersDark == Edit([page EXCEPT !.prefersDark = TRUE])

\* ------------------------------------------------------ direct method calls
\* the record of a direct call; again tells a detect() call that came right
\* after another detect() call
Returned(method, value) ==
  [method |-> method, threw |-> FALSE, value |-> value, again |-> FALSE]
Threw(method) ==
  [method |-> method, threw |-> TRUE, value |-> NULL, again |-> FALSE]

\* detect() without the this.signals = [] it starts with
DetectKeepsSignals ==
  /\ phase' = "run"
  /\ Len(signals) < 2 * MaxDarkClasses
  /\ LET d == detect(page)
         s == signals \o d.signals
     IN  /\ signals' = s
         /\ last' = [(IF d.threw THEN Threw("detect")
                      ELSE Returned("detect", DetectionResult(page, s)))
                     EXCEPT !.again = (last.method = "detect")]
  /\ held' = Rebound(held)
  /\ UNCHANGED <<pageVars, observer, monitorVars>>

\* detector.detect() called by the embedding script
Detect ==
  /\ phase' = "run"
  /\ LET d == detect(page)
     IN  /\ signals' = d.signals
         /\ last' = [(IF d.threw THEN Threw("detect")
                      ELSE Returned("detect", d.result))
                     EXCEPT !.again = (last.method = "detect")]
  /\ held' = Rebound(held)
  /\ UNCHANGED <<pageVars, observer, monitorVars>>

\* detector.calculateConfidence() called on the signal list as it stands
CalculateConfidence ==
  /\ phase' = "run"
  /\ last' = Returned("calculateConfidence", calculateConfidence(signals))
  /\ UNCHANGED <<pageVars, signals, observer, held, monitorVars>>

\* detector.getCurrentTheme() called directly
GetCurrentTheme ==
  /\ phase' = "run"
  /\ last' = Returned("getCurrentTheme", getCurrentTheme(page))
  /\ UNCHANGED <<pageVars, signals, observer, held, monitorVars>>

\* detector.isDarkColor(bg) called on the page's --background value
IsDarkColor ==
  /\ phase' = "run"
  /\ last' = Returned("isDarkColor", isDarkColor(page.background))
  /\ UNCHANGED <<pageVars, signals, observer, held, monitorVars>>

\* detector.isLightColor(bg) called on the page's --background value
IsLightColor ==
  /\ phase' = "run"
  /\ last' = Returned("isLightColor", isLightColor(page.background))
  /\ UNCHANGED <<pageVars, signals, observer, held, monitorVars>>

\* runDetection() of the test script called on the page
RunDetection ==
  /\ phase' = "run"
  /\ last' = Returned("runDetection", runDetection(page))
  /\ UNCHANGED <<pageVars, signals, observer, held, monitorVars>>

\* --------------------------------------------------------- the monitor
\* the attribute mutations the page's scripts make while the monitor is set
\* up: <<target, attribute name>>, each writing the value "dark" (the class
\* attribute by classList.toggle("dark"), the style attribute by
\* style.colorScheme = "dark", which the computed color-scheme follows)
Mutations ==
  ({"html"} \X {"class", "data-theme", "style"}) \cup {<<"body", "class">>}

\* target.getAttribute(attr) as the observer callback reads it
AttributeValue(p, target, attr) ==
  IF attr = "class"
  THEN (IF target = "html" THEN p.htmlClass ELSE p.bodyClass)
  ELSE IF attr = "style" THEN p.htmlStyle
  ELSE getAttribute(p, target, attr)

\* the page after the mutation
Mutated(p, target, attr) ==
  IF attr = "class"
  THEN (IF target = "html"
        THEN [p EXCEPT !.htmlClass =
                IF "dark" \in @ THEN @ \ {"dark"} ELSE @ \cup {"dark"}]
        ELSE [p EXCEPT !.bodyClass =
                IF "dark" \in @ THEN @ \ {"dark"} ELSE @ \cup {"dark"}])
  ELSE IF attr = "style"
       THEN [p EXCEPT !.htmlStyle = "color-scheme: dark", !.colorScheme = "dark"]
  ELSE WithAttribute(p, target, attr, "dark")

\* the elements of targets that exist: [...].filter(Boolean)
ExistingTargets(p) ==
  {"html"} \cup (IF p.hasBody THEN {"body"} ELSE {})
           \cup (p.ids \cap Range(targets))

\* observe(target, { attributes: true, attributeFilter }) queues a record
\* for a mutation of target exactly when the name is in the filter
Observes(o, target, attr) ==
  target \in observed[o] /\ attr \in Range(attributeFilter)

\* setupObserver(callback) without the .filter(Boolean) on the targets
StartObserverUnfiltered ==
  /\ created' = created + 1
  /\ observer' = created + 1
  /\ observed' = [observed EXCEPT ![created + 1] = Range(targets)]
  /\ stopped' = FALSE
  /\ UNCHANGED <<pageVars, signals, last, held, records, timers, callback,
                 failed, mutations, countVars, rootClassOnly, phase>>

\* setupObserver(callback): a new MutationObserver replaces this.observer
\* and is subscribed to the targets that exist
StartObserver ==
  /\ created' = created + 1
  /\ observer' = created + 1
  /\ observed' = [observed EXCEPT ![created + 1] = ExistingTargets(page)]
  /\ stopped' = FALSE
  /\ UNCHANGED <<pageVars, signals, last, held, records, timers, callback, failed,
                 mutations, countVars, rootClassOnly, phase>>

\* setupObserver(callback), the one call of the auto-run script
SetupObserver == created = 0 /\ StartObserver

\* setupObserver(callback) called again on the same detector
SetupObserverAgain == created > 0 /\ created < MaxObservers /\ StartObserver

\* a script of the page changes an attribute; every subscribed observer
\* whose filter has the name gets a MutationRecord queued
Mutate ==
  \E m \in Mutations :
    /\ created > 0
    /\ mutations < MaxMutations
    /\ m[1] = "body" => page.hasBody
    /\ mutations' = mutations + 1
    /\ rootClassOnly' = (rootClassOnly /\ m = <<"html", "class">>)
    /\ page' = Mutated(page, m[1], m[2])
    /\ records' = [o \in Observers |->
         IF Observes(o, m[1], m[2])
         THEN Append(records[o], [target |-> m[1], attributeName |-> m[2]])
         ELSE records[o]]
    /\ UNCHANGED <<edits, detectorVars, observed, timers, callback, failed,
                   created, stopped, countVars, phase>>

\* the records the callback of setupObserver acts on
Handled(recs) ==
  SelectSeq(recs, LAMBDA r : r.attributeName \in Range(handledAttributes))

\* every record queued for any observer, in the order the observers are
\* notified (creation order)
RECURSIVE AllRecords(_)
AllRecords(o) ==
  IF o > MaxObservers THEN <<>> ELSE records[o] \o AllRecords(o + 1)

\* the argument of the first callback(...) in the observer callback
ThemeChange(p, r) ==
  [type      |-> "theme-change",
   attribute |-> r.attributeName,
   oldValue  |-> NULL,
   newValue  |-> AttributeValue(p, r.target, r.attributeName)]

\* the microtask that notifies the observers: each callback runs
\* mutations.forEach, which for a handled name calls callback with the raw
\* mutation and sets a 100 ms timer
Deliver ==
  /\ AllRecords(1) # <<>>
  /\ LET h == Handled(AllRecords(1))
     IN  /\ callback' = IF h = <<>> THEN callback
                        ELSE ThemeChange(page, h[Len(h)])
         /\ nRaw' = nRaw + Len(h)
         /\ timers' = timers + Len(h)
         /\ windows' = IF timers = 0 /\ h # <<>> THEN windows + 1
                       ELSE windows
  /\ nDelivered' = nDelivered + Len(AllRecords(1))
  /\ records' = [o \in Observers |-> <<>>]
  /\ UNCHANGED <<pageVars, detectorVars, observed, failed, mutations, created,
                 stopped, nUpdate, rootClassOnly, phase>>

\* the timer's pass also writing the theme it resolved back to storage
FireTimerCachesTheme ==
  /\ timers > 0
  /\ AllRecords(1) = <<>>
  /\ timers' = timers - 1
  /\ LET d == detect(page)
     IN  /\ signals' = d.signals
         /\ callback' = IF d.threw THEN callback
                        ELSE [type |-> "detection-update", result |-> d.result]
         /\ nUpdate' = IF d.threw THEN nUpdate ELSE nUpdate + 1
         /\ held' = Keep(held, d)
         /\ page' = IF d.threw THEN page
                    ELSE [page EXCEPT !.storage["theme"] = d.result.currentTheme]
  /\ UNCHANGED <<edits, observer, last, observed, records, failed,
                 mutations, created, stopped, windows, nDelivered, nRaw,
                 rootClassOnly, phase>>

\* the timer's pass emptying the array in place (this.signals.length = 0)
\* instead of binding a new one: a kept result that shares it sees the
\* refilled array
FireTimerReusesArray ==
  /\ timers > 0
  /\ AllRecords(1) = <<>>
  /\ timers' = timers - 1
  /\ LET d == detect(page)
     IN  /\ signals' = d.signals
         /\ callback' = IF d.threw THEN callback
                        ELSE [type |-> "detection-update", result |-> d.result]
         /\ nUpdate' = IF d.threw THEN nUpdate ELSE nUpdate + 1
         /\ held' = IF held.kept /\ held.shared
                    THEN [held EXCEPT !.result.signals = d.signals]
                    ELSE Keep(held, d)
         /\ page' = page
  /\ UNCHANGED <<edits, observer, last, observed, records, failed,
                 mutations, created, stopped, windows, nDelivered, nRaw,
                 rootClassOnly, phase>>

\* the oldest pending timer fires: this.detect() and the second callback.
\* Timers are tasks, so the pending microtask runs first.
FireTimer ==
  /\ timers > 0
  /\ AllRecords(1) = <<>>
  /\ timers' = timers - 1
  /\ LET d == detect(page)
     IN  /\ signals' = d.signals
         /\ callback' = IF d.threw THEN callback
                        ELSE [type |-> "detection-update", result |-> d.result]
         /\ nUpdate' = IF d.threw THEN nUpdate ELSE nUpdate + 1
         /\ held' = Keep(held, d)
         /\ page' = page
  /\ UNCHANGED <<edits, observer, last, observed, records, failed,
                 mutations, created, stopped, windows, nDelivered, nRaw,
                 rootClassOnly, phase>>

\* the function setupObserver returned: () => this.observer.disconnect().
\* It reads this.observer when called; disconnect() also empties the
\* observer's record queue.  No timer is cleared.
Unobserve ==
  /\ created > 0
  /\ IF observer = 0
     THEN /\ failed' = TRUE
          /\ UNCHANGED <<observed, records, stopped>>
     ELSE /\ observed' = [observed EXCEPT ![observer] = {}]
          /\ records' = [records EXCEPT ![observer] = <<>>]
          /\ stopped' = TRUE
          /\ UNCHANGED failed
  /\ UNCHANGED <<pageVars, detectorVars, timers, callback, mutations,
                 created, countVars, rootClassOnly, phase>>

\* destroy()
Destroy ==
  /\ IF observer # 0
     THEN /\ observed' = [observed EXCEPT ![observer] = {}]
          /\ records' = [records EXCEPT ![observer] = <<>>]
          /\ observer' = 0
     ELSE UNCHANGED <<observed, records, observer>>
  /\ signals' = <<>>
  /\ held' = Rebound(held)
  /\ stopped' = TRUE
  /\ UNCHANGED <<pageVars, last, timers, callback, failed, mutations,
                 created, countVars, rootClassOnly, phase>>

\* the documents the script can find itself in when it starts: run from
\* the head, document.body is still null; an application root may exist
Documents ==
  {[BlankPage EXCEPT !.hasBody = b, !.ids = i] :
     b \in BOOLEAN, i \in {{}, {"#app"}}}

\* the document at the time the script starts
LoadDocument ==
  /\ created = 0
  /\ page = BlankPage
  /\ \E p \in Documents \ {BlankPage} : page' = p
  /\ UNCHANGED <<edits, detectorVars, monitorVars, phase>>

\* the specification of the change monitor on a live page
Next ==
  \/ LoadDocument
  \/ SetupObserver
  \/ Mutate
  \/ Deliver
  \/ FireTimer
  \/ Unobserve
  \/ Destroy

Spec == Init /\ [][Next]_vars

\* the specification of the change monitor when the caller starts it more
\* than once
NextAgain ==
  \/ SetupObserver
  \/ SetupObserverAgain
  \/ Mutate
  \/ Deliver
  \/ FireTimer
  \/ Unobserve
  \/ Destroy

SpecAgain == Init /\ [][NextAgain]_vars

\* the specification of the collection pipeline on a prepared page
NextDetect ==
  \/ SetItem
  \/ DenyStorage
  \/ SetAttribute
  \/ ClassListAdd
  \/ RemoveBody
  \/ RemoveMatchMedia
  \/ RemoveComputedStyle
  \/ InsertElement
  \/ SetCustomProperty
  \/ SetColorScheme
  \/ AddDarkClass
  \/ SetPrefersDark
  \/ Detect
  \/ CalculateConfidence
  \/ GetCurrentTheme
  \/ RunDetection

SpecDetect == Init /\ [][NextDetect]_vars

\* the specification of the color classifier called on sampled colors
NextColor ==
  \/ SetSampleColor
  \/ IsDarkColor
  \/ IsLightColor

SpecColor == Init /\ [][NextColor]_vars

\* ------------------------------------------------------------------ claims
\* nothing is pending: no timer, no undelivered record
Quiescent == timers = 0 /\ AllRecords(1) = <<>>

\* C1: once a stop operation (the returned stop function, or destroy) has
\* returned, the callback is not invoked again, with neither a theme-change
\* nor a detection-update argument.  Stated for a monitor that was set up
\* once, so that the one observer there is has been disconnected.
C1_NoCallbackAfterStop ==
  [][(created = 1 /\ stopped) => (nRaw' = nRaw /\ nUpdate' = nUpdate)]_vars

\* C2: the mutations of one debounce window share one re-collection: with
\* one observer, the re-runs done and pending never outnumber the windows
\* opened.
C2_BurstsCoalesce == created = 1 => nUpdate + timers <= windows

\* C3: with one observer observing a document that has its body, after the
\* root class attribute was mutated one or more times inside a single
\* debounce window and everything pending has run, the callback was invoked
\* exactly twice.
C3_TwoCallbacksPerWindow ==
  (created = 1 /\ ~stopped /\ page.hasBody /\ rootClassOnly /\ mutations >= 1
     /\ windows = 1 /\ Quiescent)
  => nRaw + nUpdate = 2

\* C4: with one observer, every record of a watched attribute handed to the
\* observer callback has had its raw theme-change callback by the end of
\* that delivery, and a refreshed result never comes before the raw callback
\* it follows.
C4_RawThenRefreshed == created = 1 => (nRaw = nDelivered /\ nUpdate <= nRaw)

\* C5: with a single observer, a delivery of records whose names are in the
\* watched set invokes the callback once per record and schedules a
\* re-collection; no watched name is delivered and then ignored.
C5_EveryWatchedNameTriggers ==
  [][(created = 1 /\ nDelivered' > nDelivered) =>
       (nRaw' - nRaw = nDelivered' - nDelivered /\ timers' > timers)]_vars

\* the Detection Result of the last direct detect() call, when it returned
Returns(method) == last.method = method /\ ~last.threw

\* C6: the aggregator maps the summed weight W to one tier: W >= 12
\* very-high, 8 <= W < 12 high, 4 <= W < 8 medium, W < 4 (the empty list
\* included) low; for a direct call and inside detect().
TierOfWeight(W) ==
  CASE W >= 12 -> "very-high"
    [] W >= 8 /\ W < 12 -> "high"
    [] W >= 4 /\ W < 8 -> "medium"
    [] W < 4 -> "low"

C7_DetectNeverThrows == last.method = "detect" => ~last.threw

\* the localStorage signals of a signal list, by key
StorageSignalKeys(sigs) ==
  {sigs[i].key : i \in {j \in 1..Len(sigs) : sigs[j].type = "localStorage"}}

\* the page with every key whose read throws emptied and readable
WithoutDenied(p) ==
  [p EXCEPT !.storage = [k \in StorageKeys |->
                           IF k \in p.denied THEN NULL ELSE p.storage[k]],
            !.denied = {}]

\* C8: a storage read that throws is no signal.  After detect(), the storage
\* signals are exactly those of the readable keys holding dark, enabled or
\* true; an exception leaves detect() only when the body, matchMedia or
\* getComputedStyle is missing; getCurrentTheme answers as if the denied
\* keys were not stored.
C8_StorageDeniedIsNoSignal ==
  /\ last.method = "detect" =>
       /\ StorageSignalKeys(signals) =
            {k \in Range(keys) \ page.denied :
               page.storage[k] \in {"dark", "enabled", "true"}}
       /\ last.threw =>
            (~page.hasBody \/ ~page.hasMatchMedia \/ ~page.hasComputedStyle)
       /\ ~last.threw =>
            last.value.currentTheme = getCurrentTheme(WithoutDenied(page))
  /\ last.method = "getCurrentTheme" =>
       /\ ~last.threw
       /\ last.value = getCurrentTheme(WithoutDenied(page))

\* C8 witness: a denied key holds dark, another key fired, detect() returned
C8_Witness ==
  /\ Returns("detect")
  /\ \E k \in page.denied \cap Range(keys) : page.storage[k] = "dark"
  /\ StorageSignalKeys(signals) # {}

\* C9: currentTheme of every Detection Result is dark, light or unknown.
C9_ThemeIsDarkLightUnknown ==
  Returns("detect") => last.value.currentTheme \in {"dark", "light", "unknown"}

\* the theme the last call resolved, or NULL when the last call was no
\* resolution
ResolvedTheme ==
  IF Returns("getCurrentTheme") THEN last.value
  ELSE IF Returns("detect") THEN last.value.currentTheme
  ELSE NULL

\* the readable stored value of a key
Stored(k) == IF k \in page.denied THEN NULL ELSE page.storage[k]

\* the priority order of C10, with "present" read as P(value)
PriorityTheme(P(_)) ==
  IF Stored("theme") \in {"dark", "light"} THEN Stored("theme")
  ELSE IF Stored("darkMode") \in {"dark", "light"} THEN Stored("darkMode")
  ELSE IF Stored("color-scheme") \in {"dark", "light"}
       THEN Stored("color-scheme")
  ELSE IF P(page.htmlAttr["data-theme"]) THEN page.htmlAttr["data-theme"]
  ELSE IF P(page.htmlAttr["data-bs-theme"]) THEN page.htmlAttr["data-bs-theme"]
  ELSE IF "dark" \in page.htmlClass THEN "dark"
  ELSE IF "light" \in page.htmlClass THEN "light"
  ELSE "unknown"

\* an attribute is present
Present(v) == v # NULL

\* an attribute is present and not the empty string
PresentNonEmpty(v) == v # NULL /\ v # ""

\* C10 as stated: storage keys first, then data-theme if present, else
\* data-bs-theme if present, then class dark, class light, unknown.
C10_PriorityOrder ==
  ResolvedTheme # NULL => ResolvedTheme = PriorityTheme(Present)

\* C10 amended: the same order, an attribute counting only when it is
\* present and not empty.
C10_PriorityOrderNonEmpty ==
  ResolvedTheme # NULL => ResolvedTheme = PriorityTheme(PresentNonEmpty)

\* C10 witness: stored theme=light won over root data-theme=dark
C10_Witness ==
  /\ Stored("theme") = "light"
  /\ page.htmlAttr["data-theme"] = "dark"
  /\ ResolvedTheme = "light"

\* the page carries no theme evidence: no stored value, no attribute or
\* class on root or body, no dark: utility class
NoThemeEvidence(p) ==
  /\ \A k \in StorageKeys : p.storage[k] = NULL
  /\ \A a \in AttributeNames : p.htmlAttr[a] = NULL /\ p.bodyAttr[a] = NULL
  /\ p.htmlClass = {} /\ p.bodyClass = {}
  /\ p.darkClassCount = 0

\* the last call was a detection (of the detector or of the test script)
\* and it returned
Detected == Returns("detect") \/ Returns("runDetection")

\* C11: on a page without theme evidence, detection reports hasDarkMode
\* false and confidence low.
C11_NoEvidenceNoFeature ==
  (Detected /\ NoThemeEvidence(page))
    => (~last.value.hasDarkMode /\ last.value.confidence = "low")

\* every signal of the list is the system-preference signal
OnlySystemPreference(sigs) ==
  \A i \in 1..Len(sigs) : sigs[i].type = "system-preference"

SystemPreferenceSignals(sigs) ==
  SelectSeq(sigs, LAMBDA sig : sig.type = "system-preference")

C14_FeatureIffSignals ==
  /\ Returns("detect")
       => (last.value.hasDarkMode <=> last.value.signals # <<>>)
  /\ Returns("runDetection")
       => (last.value.hasDarkMode <=> last.value.signals # 0)

\* C14 witness: a result with the shortest list detect() returns
C14_Witness ==
  /\ Returns("detect")
  /\ Len(last.value.signals) = 1
  /\ last.value.hasDarkMode

\* the page whose state is exactly: stored theme = dark, root class dark,
\* one dark: utility class
ThreeIndicators ==
  [BlankPage EXCEPT !.storage["theme"] = "dark",
                    !.htmlClass = {"dark"},
                    !.darkClassCount = 1]

\* C15: on that page the weights are 4 + 3 + 4 = 11 and the confidence is
\* high.
C15_ThreeIndicatorsHigh ==
  (Returns("detect") /\ page = ThreeIndicators)
    => /\ totalWeight(last.value.signals) = 11
       /\ last.value.confidence = "high"

\* the page whose only theme evidence is <html data-bs-theme="dark">
BootstrapOnly == [BlankPage EXCEPT !.htmlAttr["data-bs-theme"] = "dark"]

\* C16: on that page currentTheme is dark and the confidence is low.
C16_BootstrapAloneLow ==
  (Returns("detect") /\ page = BootstrapOnly)
    => /\ last.value.currentTheme = "dark"
       /\ last.value.confidence = "low"

\* the pages with exactly one theme indicator, and the indicator's own tier
SingleIndicators ==
  { <<[BlankPage EXCEPT !.storage["theme"] = "dark"], "very-high">>,
    <<[BlankPage EXCEPT !.htmlAttr["data-theme"] = "dark"], "high">>,
    <<[BlankPage EXCEPT !.htmlAttr["data-bs-theme"] = "dark"], "high">>,
    <<[BlankPage EXCEPT !.htmlClass = {"dark"}], "high">> }

\* C17: on a page with exactly one theme indicator, detection reports
\* hasDarkMode true and the indicator's own tier as the confidence.
C17_SingleIndicatorTier ==
  \A pt \in SingleIndicators :
    (Detected /\ page = pt[1])
      => (last.value.hasDarkMode /\ last.value.confidence = pt[2])

\* the order of the tiers
Rank(tier) ==
  CASE tier = "low" -> 0
    [] tier = "medium" -> 1
    [] tier = "high" -> 2
    [] tier = "very-high" -> 3

\* one signal of each weight the check methods push
PushedSignals ==
  { [type |-> "system-preference", prefersDark |-> FALSE,
     confidence |-> "low", weight |-> WeightLow],
    [type |-> "color-scheme-property", value |-> "dark",
     confidence |-> "medium", weight |-> WeightMedium],
    [type |-> "class-name", className |-> "dark", element |-> "html",
     confidence |-> "high", weight |-> WeightHigh],
    [type |-> "library", name |-> "darkreader",
     confidence |-> "very-high", weight |-> WeightVeryHigh] }

\* C18: whatever this.signals holds, pushing one more signal onto it never
\* lowers the tier calculateConfidence gives.
C18_Monotone ==
  \A sig \in PushedSignals :
    Rank(calculateConfidence(Append(signals, sig)))
      >= Rank(calculateConfidence(signals))

\* C18 witness: calculateConfidence() rated a list high that one more
\* signal lifts to very-high
C18_Witness ==
  /\ Returns("calculateConfidence")
  /\ last.value = "high"
  /\ \E sig \in PushedSignals :
       calculateConfidence(Append(signals, sig)) = "very-high"

\* C19: a detect() call right after a detect() call that returned, the
\* page unchanged, returns an equal result and leaves this.signals equal.
C19_Idempotent ==
  [][(Returns("detect") /\ last'.method = "detect" /\ page' = page)
       => (~last'.threw /\ last'.value = last.value /\ signals' = signals)]_vars

\* C19 witness: a second detect() in a row returned, with several signals
C19_Witness ==
  /\ Returns("detect")
  /\ last.again
  /\ Len(last.value.signals) > 1

\* a signal of the list is the css-custom-property signal of the property
HasPropertySignal(sigs, property) ==
  \E i \in 1..Len(sigs) :
    sigs[i].type = "css-custom-property" /\ sigs[i].property = property

\* C20: a color that is neither #rrggbb nor rgb(r, g, b) is indeterminate:
\* as the value of --background or --text-color it gives no signal.
C20_UnparsedColorNoSignal ==
  Returns("detect") =>
    /\ page.background.form \notin {"hex6", "rgb"}
         => ~HasPropertySignal(last.value.signals, "--background")
    /\ page.textColor.form \notin {"hex6", "rgb"}
         => ~HasPropertySignal(last.value.signals, "--text-color")

\* the exact luminance of a parsed color, times 255000
ExactLuminance(color) == 299 * color.r + 587 * color.g + 114 * color.b

\* C21: a parsable color is dark exactly when 299 r + 587 g + 114 b is
\* below 127500, the boundary value itself counting as not dark.
C21_DarkIffBelowHalf ==
  (Returns("isDarkColor") /\ page.background.form \in {"hex6", "rgb"})
    => (last.value <=> ExactLuminance(page.background) < 127500)

\* the storage keys the claim names
NamedStorageKeys ==
  {"theme", "darkMode", "dark-mode", "color-scheme", "theme-preference",
   "vueuse-color-scheme", "vite-ui-theme"}

\* the storage signals of a list for one key
StorageSignalsFor(sigs, k) ==
  SelectSeq(sigs, LAMBDA sig : sig.type = "localStorage" /\ sig.key = k)

\* C25: after a pass over readable storage, each named key has a storage
\* signal (very-high, weight 4) exactly when its value is dark, enabled or
\* true.
C25_NamedKeysSignal ==
  (last.method = "detect" /\ page.denied = {}) =>
    \A k \in NamedStorageKeys :
      LET fired == StorageSignalsFor(signals, k)
      IN  /\ Len(fired) > 0 <=> page.storage[k] \in {"dark", "enabled", "true"}
          /\ \A i \in 1..Len(fired) :
               fired[i].confidence = "very-high" /\ fired[i].weight = 4

\* the weight that goes with a tier
TierWeight(tier) ==
  CASE tier = "very-high" -> 4
    [] tier = "high" -> 3
    [] tier = "medium" -> 2
    [] tier = "low" -> 1

\* C26: every signal a pass leaves in this.signals is of one of the four
\* tiers and carries the weight of its tier.
C26_WeightOfTier ==
  last.method = "detect" =>
    \A i \in 1..Len(signals) :
      /\ signals[i].confidence \in {"very-high", "high", "medium", "low"}
      /\ signals[i].weight = TierWeight(signals[i].confidence)

\* C26 witness: a pass with signals of all four tiers
C26_Witness ==
  /\ Returns("detect")
  /\ {signals[i].confidence : i \in 1..Len(signals)}
       = {"very-high", "high", "medium", "low"}

\* C22: a collection pass is read-only: a step in which a timer's re-run or
\* a directly called method ran leaves the page as it was.
C22_PassIsReadOnly ==
  [][(timers' < timers \/ last' # last) => page' = page]_vars

\* C22 witness: a re-run has delivered its result on a page that scripts
\* had changed
C22_Witness ==
  /\ nUpdate > 0
  /\ callback.type = "detection-update"
  /\ page # BlankPage

\* C23: the stop operations, called again on an idle monitor in any order,
\* raise no error and leave no observer subscribed.
C23_StopIsIdempotent ==
  /\ ~failed
  /\ (created = 1 /\ stopped) => observed[1] = {}

\* a target of setupObserver exists in the document
TargetExists(p, t) ==
  CASE t = "html" -> TRUE
    [] t = "body" -> p.hasBody
    [] OTHER -> t \in p.ids

\* C24: the monitor is idle (subscribed to nothing) before start and after
\* stop, and in between subscribed to exactly the targets among root, body,
\* #root, #app, #__next that exist.  Stated for a monitor started once.
C24_IdleOrObserving ==
  /\ created = 0 => \A o \in Observers : observed[o] = {}
  /\ (created = 1 /\ ~stopped) =>
       /\ observer = 1
       /\ observed[1] = {t \in {"html", "body", "#root", "#app", "#__next"} :
                           TargetExists(page, t)}
  /\ (created = 1 /\ stopped) => \A o \in Observers : observed[o] = {}

\* C24 witness: started in a document without body and with #app, the
\* monitor observes the root and #app, and has queued a mutation
C24_Witness ==
  /\ created = 1 /\ ~stopped
  /\ observed[1] = {"html", "#app"}
  /\ records[1] # <<>>

\* C27: a Detection Result that was handed out is not changed by anything
\* that happens later: detect() calls, re-runs, destroy().
C27_ResultIsNotChanged ==
  [][held.kept => (held'.kept /\ held'.result = held.result)]_vars

\* C27 witness: a later re-run has built a different signal list, and the
\* result kept from the first one is as it was
C27_Witness ==
  /\ held.kept
  /\ nUpdate >= 2
  /\ signals # held.result.signals

\* C28: once a stop function has been called, no observer is subscribed:
\* each stop function disconnects the observer of its own setupObserver
\* call.  (The stop functions are all () => this.observer.disconnect(), and
\* disconnect() twice is disconnect() once: the state after one of them was
\* called is the state after all of them were.)
C28_StopDisconnectsItsObserver ==
  (stopped /\ observer # 0) => \A o \in Observers : observed[o] = {}

\* C29: the monitor not stopped, the mutations made, delivered and every
\* timer fired, the last argument of the callback is a detection-update
\* whose result is what detect() returns on the page as it is now.
C29_LastUpdateIsCurrent ==
  (created = 1 /\ ~stopped /\ mutations >= 1 /\ Quiescent)
    => /\ callback.type = "detection-update"
       /\ callback.result = detect(page).result

\* C30: from destroy() on, until the caller calls setupObserver() or
\* detect(), this.observer is null and this.signals is empty.
C30_DestroyedStaysEmpty ==
  (stopped /\ observer = 0) => signals = <<>>

====
